---- MODULE Spec2Model ----
(***************************************************************************)
(* ST-DBSCAN engine of src/algo3/st_dbscan.py (class STDBSCAN) as a state  *)
(* machine: the constructor, fit's main pass over the input list, the      *)
(* breadth-first expand_cluster loop, and the result accessors             *)
(* get_clusters / get_statistics.                                          *)
(*                                                                         *)
(* Geometry.  All modelled points lie on one meridian (lon = 0) and lat    *)
(* is measured in kilometres of arc along it (lat degrees * pi/180 * R).   *)
(* For two such points dlon = 0, so the haversine formula of lines 67-77   *)
(* gives a = sin^2(dlat/2), c = |dlat| and R * c = |lat2 - lat1| km.       *)
(* List indices are 1-based here; Python index i is index i + 1.           *)
(*                                                                         *)
(* Further down: the callers of the engine (re-ordering, re-fitting,       *)
(* parameter sweep, ClusteringResultExporter of src/algo3/export_utils.py),*)
(* _overpass_request of src/algo2/backend/main.py and the DataStore of     *)
(* src/DayLast/app.py, each with a specification of its own.               *)
(***************************************************************************)
EXTENDS Integers, Sequences, FiniteSets, TLC

VARIABLES
    args,        \* the arguments the caller passes to STDBSCAN(eps1, eps2, min_pts)
    data,        \* the caller's list of STPoint objects (the labels live on them)
    pc,          \* "new" | "idle" | "scan" | "expand" | "done"
    eps1,        \* self.eps1
    eps2,        \* self.eps2
    min_pts,     \* self.min_pts
    points,      \* self.points: "own" (the empty list of __init__) or "data" (alias of the caller's list)
    cluster_id,  \* self.cluster_id
    i,           \* loop index of fit's main pass
    queue,       \* the deque of expand_cluster
    raised,      \* exception surfaced to the caller ("none": the code raises none)
    prev,        \* labels by point id read by the caller after the previous fit, <<>> if none
    nbr_calls,   \* the list indices get_neighbors has been called with during the current fit
    first,       \* what the caller read from an earlier engine that still holds the list, <<>> if none
    \* _overpass_request of src/algo2/backend/main.py
    retries,     \* the argument retries
    ov_pc,       \* "idle" | "loop" | "returned" | "raised"
    attempt,     \* loop variable of the outer for
    base,        \* position in OVERPASS_URLS of the inner for (1-based)
    last_err,    \* <<>> for None, else <<e>> with e the exception caught last
    sent,        \* the requests posted so far, in order, each with how it ended
    ov_result,   \* what the call returned or raised, <<>> while it runs
    \* ClusteringResultExporter of src/algo3/export_utils.py
    \* DataStore of src/DayLast/app.py and the polling thread
    stations,               \* self.stations: station id -> station
    rtree_idx,              \* self.rtree_idx: the items inserted into the index, in order
    empty_stations_coords,  \* self.empty_stations_coords
    activity_counter,       \* self.activity_counter: the dict's items (name, count) in insertion order
    lock,                   \* self.lock: "free" or the thread holding it
    upd,                    \* the update_data call of the polling thread: pc, new_stations, loop index, empty_coords
    n_calls,                \* update_data calls made so far
    committed,              \* the index, stations map and empty coordinates as the last completed update_data left them
    seen,                   \* <<>> or <<what a reader found in the store under the lock>>
    exporter     \* built: constructed or not; points: the list self.points refers to ("own": the
                 \* engine's empty list, "data": the caller's current list, "old": the list the
                 \* engine was fitted on before); list: the content of that former list

engineVars == <<args, data, pc, eps1, eps2, min_pts, points, cluster_id, i, queue, raised, prev, first,
                nbr_calls>>

overpassVars == <<retries, ov_pc, attempt, base, last_err, sent, ov_result>>

\* what the ST-DBSCAN engine never touches
storeVars == <<stations, rtree_idx, empty_stations_coords, activity_counter, lock, upd, n_calls,
               committed, seen>>

outside == <<overpassVars, exporter, storeVars>>

vars == <<engineVars, outside>>

----------------------------------------------------------------------------
(* Bounds of the model *)

MaxPts == 4
MaxMinPts == 3

(* Label values of STPoint.cluster *)
UNCLASSIFIED == -1
NOISE == 0

----------------------------------------------------------------------------
(* Pure helpers *)

Abs(x) == IF x < 0 THEN -x ELSE x

Indices(n) == [k \in 1..n |-> k]

STPoint(id, lat, lon, time, value) ==
    [id |-> id, lat |-> lat, lon |-> lon, time |-> time, value |-> value,
     cluster |-> UNCLASSIFIED]

\* a float that is not a number (non-finite coordinate); every other value of
\* the model is a finite number
NaN == -1000

\* float comparison a <= b: False as soon as one side is NaN
Le(a, b) == a # NaN /\ b # NaN /\ a <= b

\* NaN propagates through the arithmetic of lines 67-77
haversine_distance(lat1, lon1, lat2, lon2) ==
    IF NaN \in {lat1, lon1, lat2, lon2} THEN NaN ELSE Abs(lat2 - lat1)

\* temporal_distance without abs()
temporal_distance_NoAbs(time1, time2) ==
    IF NaN \in {time1, time2} THEN NaN ELSE time1 - time2

temporal_distance(time1, time2) ==
    IF NaN \in {time1, time2} THEN NaN ELSE Abs(time1 - time2)

\* the list self.points refers to
Points == IF points = "data" THEN data ELSE <<>>

Label(k) == Points[k].cluster

\* get_neighbors with the two threshold tests joined by "or" instead of "and"
get_neighbors_Or(point_id) ==
    SelectSeq(Indices(Len(Points)),
              LAMBDA j :
                  /\ j # point_id
                  /\ \/ Le(haversine_distance(Points[point_id].lat, Points[point_id].lon,
                                           Points[j].lat, Points[j].lon), eps1)
                     \/ Le(temporal_distance(Points[point_id].time, Points[j].time), eps2))

\* get_neighbors without the "if i == point_id: continue" of lines 115-116
get_neighbors_Self(point_id) ==
    SelectSeq(Indices(Len(Points)),
              LAMBDA j :
                  /\ Le(haversine_distance(Points[point_id].lat, Points[point_id].lon,
                                        Points[j].lat, Points[j].lon), eps1)
                  /\ Le(temporal_distance(Points[point_id].time, Points[j].time), eps2))

\* get_neighbors that skips the points carrying the centre's id field instead
\* of the centre's list index
get_neighbors_ById(point_id) ==
    SelectSeq(Indices(Len(Points)),
              LAMBDA j :
                  /\ Points[j].id # Points[point_id].id
                  /\ Le(haversine_distance(Points[point_id].lat, Points[point_id].lon,
                                           Points[j].lat, Points[j].lon), eps1)
                  /\ Le(temporal_distance(Points[point_id].time, Points[j].time), eps2))

get_neighbors(point_id) ==
    SelectSeq(Indices(Len(Points)),
              LAMBDA j :
                  /\ j # point_id
                  /\ Le(haversine_distance(Points[point_id].lat, Points[point_id].lon,
                                        Points[j].lat, Points[j].lon), eps1)
                  /\ Le(temporal_distance(Points[point_id].time, Points[j].time), eps2))

\* SetLabel that also overwrites the payload value with the label
SetLabel_Value(k, c) == [data EXCEPT ![k].cluster = c, ![k].value = c]

SetLabel(k, c) == [data EXCEPT ![k].cluster = c]

----------------------------------------------------------------------------
(* Inputs *)

\* lat in km of arc, time in time steps
Coords == (0..2) \X (0..1)

MakeData(c) == [k \in DOMAIN c |-> STPoint(k - 1, c[k][1], 0, c[k][2], 1)]

DataLists == { MakeData(c) : c \in UNION { [1..n -> Coords] : n \in 0..MaxPts } }

ArgSets == [eps1 : 0..1, eps2 : 0..1, min_pts : 0..MaxMinPts]

\* no _overpass_request call is in progress
OverpassIdle ==
    /\ retries = 0
    /\ ov_pc = "idle"
    /\ attempt = 0
    /\ base = 0
    /\ last_err = <<>>
    /\ sent = <<>>
    /\ ov_result = <<>>

\* no ClusteringResultExporter has been constructed
NoExporter == exporter = [built |-> FALSE, points |-> "own", list |-> <<>>]

\* the index, the stations map and the empty coordinates of the store
Store ==
    [rtree_idx |-> rtree_idx, stations |-> stations,
     empty_stations_coords |-> empty_stations_coords]

\* DataStore.__init__, lines 26-36, and no update_data call running
StoreInit ==
    /\ stations = <<>>
    /\ rtree_idx = <<>>
    /\ empty_stations_coords = <<>>
    /\ activity_counter = <<>>
    /\ lock = "free"
    /\ upd = [pc |-> "idle", new_stations |-> <<>>, k |-> 0, empty_coords |-> <<>>]
    /\ n_calls = 0
    /\ committed = [rtree_idx |-> <<>>, stations |-> <<>>, empty_stations_coords |-> <<>>]
    /\ seen = <<>>

OutsideIdle == OverpassIdle /\ NoExporter /\ StoreInit

Init ==
    /\ OutsideIdle
    /\ args \in ArgSets
    /\ data \in DataLists
    /\ pc = "new"
    /\ eps1 = 0
    /\ eps2 = 0
    /\ min_pts = 0
    /\ points = "own"
    /\ cluster_id = 0
    /\ i = 0
    /\ queue = <<>>
    /\ raised = "none"
    /\ prev = <<>>
    /\ first = <<>>
    /\ nbr_calls = {}

----------------------------------------------------------------------------
(* STDBSCAN.__init__ *)

Construct ==
    /\ pc = "new"
    /\ eps1' = args.eps1
    /\ eps2' = args.eps2
    /\ min_pts' = args.min_pts
    /\ points' = "own"
    /\ cluster_id' = 0
    /\ pc' = "idle"
    /\ UNCHANGED <<args, data, i, queue, raised, prev, first, nbr_calls, outside>>

\* FitInit without line 195: the counter runs on from the fit before
FitInit_NoCounterReset ==
    /\ pc = "idle"
    /\ points' = "data"
    /\ data' = [k \in DOMAIN data |-> [data[k] EXCEPT !.cluster = UNCLASSIFIED]]
    /\ i' = 1
    /\ queue' = <<>>
    /\ pc' = "scan"
    /\ nbr_calls' = {}
    /\ UNCHANGED <<args, eps1, eps2, min_pts, cluster_id, raised, prev, first, outside>>

(* STDBSCAN.fit, lines 194-199: bind the list, reset the counter and labels *)
FitInit ==
    /\ pc = "idle"
    /\ points' = "data"
    /\ cluster_id' = 0
    /\ data' = [k \in DOMAIN data |-> [data[k] EXCEPT !.cluster = UNCLASSIFIED]]
    /\ i' = 1
    /\ queue' = <<>>
    /\ pc' = "scan"
    /\ nbr_calls' = {}
    /\ UNCHANGED <<args, eps1, eps2, min_pts, raised, prev, first, outside>>

\* FitSkip without the "continue": a classified point with too few
\* neighbours is marked noise again
FitSkip_Relabel ==
    /\ pc = "scan"
    /\ i <= Len(Points)
    /\ Label(i) # UNCLASSIFIED
    /\ data' = IF Len(get_neighbors(i)) < min_pts THEN SetLabel(i, NOISE) ELSE data
    /\ i' = i + 1
    /\ UNCHANGED <<args, pc, eps1, eps2, min_pts, points, cluster_id, queue, raised, prev, first, nbr_calls, outside>>

(* fit, lines 204-205: already classified, continue *)
FitSkip ==
    /\ pc = "scan"
    /\ i <= Len(Points)
    /\ Label(i) # UNCLASSIFIED
    /\ i' = i + 1
    /\ UNCHANGED <<args, data, pc, eps1, eps2, min_pts, points, cluster_id, queue, raised, prev, first, nbr_calls, outside>>

\* FitNoise that forgets to write the label
FitNoise_Unlabelled ==
    /\ pc = "scan"
    /\ i <= Len(Points)
    /\ Label(i) = UNCLASSIFIED
    /\ Len(get_neighbors(i)) < min_pts
    /\ i' = i + 1
    /\ nbr_calls' = nbr_calls \cup {i}
    /\ UNCHANGED <<args, data, pc, eps1, eps2, min_pts, points, cluster_id, queue, raised, prev, first, outside>>

\* FitNoise with "<=" for "<"
FitNoise_Le ==
    /\ pc = "scan"
    /\ i <= Len(Points)
    /\ Label(i) = UNCLASSIFIED
    /\ Len(get_neighbors(i)) <= min_pts
    /\ data' = SetLabel(i, NOISE)
    /\ i' = i + 1
    /\ nbr_calls' = nbr_calls \cup {i}
    /\ UNCHANGED <<args, pc, eps1, eps2, min_pts, points, cluster_id, queue, raised, prev, first, outside>>

\* FitNoise that has already taken a fresh cluster id for the point
FitNoise_Alloc ==
    /\ pc = "scan"
    /\ i <= Len(Points)
    /\ Label(i) = UNCLASSIFIED
    /\ Len(get_neighbors(i)) < min_pts
    /\ cluster_id' = cluster_id + 1
    /\ data' = SetLabel(i, NOISE)
    /\ i' = i + 1
    /\ nbr_calls' = nbr_calls \cup {i}
    /\ UNCHANGED <<args, pc, eps1, eps2, min_pts, points, queue, raised, prev, first, outside>>

(* fit, lines 208-212: fewer than min_pts neighbours, mark noise *)
FitNoise ==
    /\ pc = "scan"
    /\ i <= Len(Points)
    /\ Label(i) = UNCLASSIFIED
    /\ Len(get_neighbors(i)) < min_pts
    /\ data' = SetLabel(i, NOISE)
    /\ i' = i + 1
    /\ nbr_calls' = nbr_calls \cup {i}
    /\ UNCHANGED <<args, pc, eps1, eps2, min_pts, points, cluster_id, queue, raised, prev, first, outside>>

\* FitExpand without the core-point test: every unclassified point seeds a cluster
FitExpand_Always ==
    /\ pc = "scan"
    /\ i <= Len(Points)
    /\ Label(i) = UNCLASSIFIED
    /\ cluster_id' = cluster_id + 1
    /\ data' = SetLabel(i, cluster_id + 1)
    /\ queue' = get_neighbors(i)
    /\ pc' = "expand"
    /\ nbr_calls' = nbr_calls \cup {i}
    /\ UNCHANGED <<args, eps1, eps2, min_pts, points, i, raised, prev, first, outside>>

(* fit, lines 213-215 and expand_cluster, lines 151-155: new cluster, seed the queue *)
FitExpand ==
    /\ pc = "scan"
    /\ i <= Len(Points)
    /\ Label(i) = UNCLASSIFIED
    /\ ~(Len(get_neighbors(i)) < min_pts)
    /\ cluster_id' = cluster_id + 1
    /\ data' = SetLabel(i, cluster_id + 1)
    /\ queue' = get_neighbors(i)
    /\ pc' = "expand"
    /\ nbr_calls' = nbr_calls \cup {i}
    /\ UNCHANGED <<args, eps1, eps2, min_pts, points, i, raised, prev, first, outside>>

(* expand_cluster, lines 158-163: a dequeued noise point joins the cluster *)
ExpandNoise ==
    /\ pc = "expand"
    /\ queue # <<>>
    /\ Label(Head(queue)) = NOISE
    /\ data' = SetLabel(Head(queue), cluster_id)
    /\ queue' = Tail(queue)
    /\ UNCHANGED <<args, pc, eps1, eps2, min_pts, points, cluster_id, i, raised, prev, first, nbr_calls, outside>>

\* ExpandVisit that never enqueues the neighbours of a core point
ExpandVisit_NoPush ==
    /\ pc = "expand"
    /\ queue # <<>>
    /\ Label(Head(queue)) = UNCLASSIFIED
    /\ data' = SetLabel(Head(queue), cluster_id)
    /\ queue' = Tail(queue)
    /\ nbr_calls' = nbr_calls \cup {Head(queue)}
    /\ UNCHANGED <<args, pc, eps1, eps2, min_pts, points, cluster_id, i, raised, prev, first, outside>>

\* ExpandVisit without the test of line 175: a core point enqueues all its
\* neighbours
ExpandVisit_PushAll ==
    /\ pc = "expand"
    /\ queue # <<>>
    /\ Label(Head(queue)) = UNCLASSIFIED
    /\ data' = SetLabel(Head(queue), cluster_id)
    /\ LET current_id == Head(queue)
           current_neighbors == get_neighbors(current_id)
       IN  queue' = IF Len(current_neighbors) >= min_pts
                    THEN Tail(queue) \o current_neighbors
                    ELSE Tail(queue)
    /\ nbr_calls' = nbr_calls \cup {Head(queue)}
    /\ UNCHANGED <<args, pc, eps1, eps2, min_pts, points, cluster_id, i, raised, prev, first, outside>>

(* expand_cluster, lines 166-176: a dequeued unclassified point joins the
   cluster; if it is a core point its unclassified neighbours are enqueued *)
ExpandVisit ==
    /\ pc = "expand"
    /\ queue # <<>>
    /\ Label(Head(queue)) = UNCLASSIFIED
    /\ data' = SetLabel(Head(queue), cluster_id)
    /\ LET current_id == Head(queue)
           current_neighbors == get_neighbors(current_id)
       IN  queue' = IF Len(current_neighbors) >= min_pts
                    THEN Tail(queue) \o
                         SelectSeq(current_neighbors,
                                   LAMBDA n : n # current_id /\ Label(n) = UNCLASSIFIED)
                    ELSE Tail(queue)
    /\ nbr_calls' = nbr_calls \cup {Head(queue)}
    /\ UNCHANGED <<args, pc, eps1, eps2, min_pts, points, cluster_id, i, raised, prev, first, outside>>

\* ExpandSkip that puts the dequeued point back at the end of the queue
ExpandSkip_Requeue ==
    /\ pc = "expand"
    /\ queue # <<>>
    /\ Label(Head(queue)) > NOISE
    /\ queue' = Append(Tail(queue), Head(queue))
    /\ UNCHANGED <<args, data, pc, eps1, eps2, min_pts, points, cluster_id, i, raised, prev, first, nbr_calls, outside>>

(* expand_cluster, lines 158-166: a dequeued point that already holds a
   cluster id is left alone *)
ExpandSkip ==
    /\ pc = "expand"
    /\ queue # <<>>
    /\ Label(Head(queue)) > NOISE
    /\ queue' = Tail(queue)
    /\ UNCHANGED <<args, data, pc, eps1, eps2, min_pts, points, cluster_id, i, raised, prev, first, nbr_calls, outside>>

(* expand_cluster, lines 157 and 178: queue empty, back to fit's loop *)
ExpandReturn ==
    /\ pc = "expand"
    /\ queue = <<>>
    /\ pc' = "scan"
    /\ i' = i + 1
    /\ UNCHANGED <<args, data, eps1, eps2, min_pts, points, cluster_id, queue, raised, prev, first, nbr_calls, outside>>

(* fit, line 217: the pass is over *)
FitReturn ==
    /\ pc = "scan"
    /\ i > Len(Points)
    /\ pc' = "done"
    /\ UNCHANGED <<args, data, eps1, eps2, min_pts, points, cluster_id, i, queue, raised, prev, first, nbr_calls, outside>>

Next ==
    \/ Construct
    \/ FitInit
    \/ FitSkip
    \/ FitNoise
    \/ FitExpand
    \/ ExpandNoise
    \/ ExpandVisit
    \/ ExpandSkip
    \/ ExpandReturn
    \/ FitReturn

Spec == Init /\ [][Next]_vars

(* fit is one sequential call with no suspension point: once the caller has
   started it, the interpreter executes the next statement as long as there
   is one *)
SpecLive == Init /\ [][Next]_vars /\ WF_vars(Next)

----------------------------------------------------------------------------
(* The scenarios of the specification's section 8: eps_space = 5 km,
   eps_time = 0, points at one time on lats that are near (0, 1), at the
   edge of the threshold (6) or far away (60, 120) *)

ScenarioCoords == {0, 1, 6, 60, 120} \X {0}

ScenarioLists ==
    { MakeData(c) : c \in UNION { [1..n -> ScenarioCoords] : n \in 3..5 } }

\* Scenario D: 8 points, 4 of them on lats 0 and 1 and 4 on lats 60 and 61, in
\* every order
ScenarioDLists ==
    { MakeData(c) : c \in { f \in [1..8 -> {0, 1, 60, 61} \X {0}] :
                               Cardinality({ k \in 1..8 : f[k][1] <= 1 }) = 4 } }

InitScenario ==
    /\ OutsideIdle
    /\ \/ /\ args \in [eps1 : {5}, eps2 : {0}, min_pts : {2, 3, 5}]
          /\ data \in ScenarioLists
       \/ /\ args \in [eps1 : {5}, eps2 : {0}, min_pts : {3}]
          /\ data \in ScenarioDLists
    /\ pc = "new"
    /\ eps1 = 0
    /\ eps2 = 0
    /\ min_pts = 0
    /\ points = "own"
    /\ cluster_id = 0
    /\ i = 0
    /\ queue = <<>>
    /\ raised = "none"
    /\ prev = <<>>
    /\ first = <<>>
    /\ nbr_calls = {}

SpecScenario == InitScenario /\ [][Next]_vars

----------------------------------------------------------------------------
(* Inputs of 7 points at one time on lats 0, 1, 2 and 10 with eps1 = 1,
   min_pts = 2: enough points for a noise point at the head of the list to
   be taken in by the second cluster while the first cluster is larger *)

SizesLists == { MakeData(c) : c \in [1..7 -> {0, 1, 2, 10} \X {0}] }

InitSizes ==
    /\ OutsideIdle
    /\ args \in [eps1 : {1}, eps2 : {0}, min_pts : {2}]
    /\ data \in SizesLists
    /\ pc = "new"
    /\ eps1 = 0
    /\ eps2 = 0
    /\ min_pts = 0
    /\ points = "own"
    /\ cluster_id = 0
    /\ i = 0
    /\ queue = <<>>
    /\ raised = "none"
    /\ prev = <<>>
    /\ first = <<>>
    /\ nbr_calls = {}

SpecSizes == InitSizes /\ [][Next]_vars

----------------------------------------------------------------------------
(* Inputs with non-finite coordinates: up to 3 points whose lat, lon and
   time may each be NaN *)

NonFiniteCoords == {0, 1, 2, NaN} \X {0, NaN} \X {0, NaN}

NonFiniteLists ==
    { [k \in DOMAIN c |-> STPoint(k - 1, c[k][1], c[k][2], c[k][3], 1)] :
        c \in UNION { [1..n -> NonFiniteCoords] : n \in 1..3 } }

InitNonFinite ==
    /\ OutsideIdle
    /\ args \in ArgSets
    /\ data \in NonFiniteLists
    /\ pc = "new"
    /\ eps1 = 0
    /\ eps2 = 0
    /\ min_pts = 0
    /\ points = "own"
    /\ cluster_id = 0
    /\ i = 0
    /\ queue = <<>>
    /\ raised = "none"
    /\ prev = <<>>
    /\ first = <<>>
    /\ nbr_calls = {}

SpecNonFinite == InitNonFinite /\ [][Next]_vars

----------------------------------------------------------------------------
(* A caller that reads the labels after fit, re-orders its list (as the
   examples do with sorted(...)) and fits the re-ordered list.  One step
   exchanges two adjacent elements; every permutation is a product of such
   exchanges and the initial lists are all the lists, so a property that
   survives every exchange survives every permutation. *)

Swap(s, a) ==
    [k \in DOMAIN s |-> IF k = a THEN s[a + 1] ELSE IF k = a + 1 THEN s[a] ELSE s[k]]

Reorder ==
    /\ pc = "done"
    /\ DOMAIN prev = {}
    /\ Len(data) >= 2
    /\ \E a \in 1..(Len(data) - 1) : data' = Swap(data, a)
    /\ prev' = [id \in { data[k].id : k \in DOMAIN data } |->
                  data[CHOOSE k \in DOMAIN data : data[k].id = id].cluster]
    /\ pc' = "idle"
    /\ UNCHANGED <<args, eps1, eps2, min_pts, points, cluster_id, i, queue, raised, first, nbr_calls, outside>>

\* the labels the caller reads off its points, by point id
LabelsById ==
    [id \in { data[k].id : k \in DOMAIN data } |->
        data[CHOOSE k \in DOMAIN data : data[k].id = id].cluster]

InitOrder == Init /\ Len(data) >= 2

NextOrder == Next \/ Reorder

SpecOrder == InitOrder /\ [][NextOrder]_vars

----------------------------------------------------------------------------
(* A caller that reads the labels after fit and runs the same input again:
   fit on the same engine, whose counter and labels are stale from the
   run before, or fit on a fresh engine built with the same arguments. *)

Refit ==
    /\ pc = "done"
    /\ DOMAIN prev = {}
    /\ Len(data) >= 1
    /\ prev' = LabelsById
    /\ pc' \in {"idle", "new"}
    /\ UNCHANGED <<args, data, eps1, eps2, min_pts, points, cluster_id, i, queue, raised, first, nbr_calls, outside>>

NextRefit == Next \/ Refit

SpecRefit == Init /\ [][NextRefit]_vars

----------------------------------------------------------------------------
(* ClusteringResultExporter (src/algo3/export_utils.py): the constructor
   keeps the engine and the list the engine's self.points refers to at that
   moment; the engine's next fit binds self.points to the list it is given. *)

\* __init__, lines 29-30
Export ==
    /\ pc \in {"idle", "done"}
    /\ ~exporter.built
    /\ exporter' = [built |-> TRUE, points |-> points, list |-> <<>>]
    /\ UNCHANGED <<engineVars, overpassVars, storeVars>>

\* the lists the caller fits the engine on after the first one
OtherLists == { MakeData(c) : c \in UNION { [1..n -> {0, 1} \X {0}] : n \in 0..2 } }

\* the caller builds another list and calls fit on it: lines 194-199 on a new
\* list object, the former list staying with whoever still refers to it
FitOther ==
    /\ pc = "done"
    /\ exporter.built
    /\ DOMAIN prev = {}
    /\ prev' = LabelsById
    /\ data' \in OtherLists
    /\ points' = "data"
    /\ cluster_id' = 0
    /\ i' = 1
    /\ queue' = <<>>
    /\ nbr_calls' = {}
    /\ pc' = "scan"
    /\ exporter' = IF exporter.points = "data"
                    THEN [exporter EXCEPT !.points = "old", !.list = data]
                    ELSE exporter
    /\ UNCHANGED <<args, eps1, eps2, min_pts, raised, first, overpassVars, storeVars>>

InitExport == Init /\ Len(data) <= 3

NextExport == Next \/ Export \/ FitOther

SpecExport == InitExport /\ [][NextExport]_vars

\* the exporter's self.points
ExporterPoints ==
    CASE exporter.points = "data" -> data
      [] exporter.points = "old" -> exporter.list
      [] OTHER -> <<>>

----------------------------------------------------------------------------
(* STDBSCAN.get_clusters: the dict is kept as the list of its items in
   insertion order, each item a label and the list of indices carrying it *)

DictKeys(d) == { d[k].cid : k \in DOMAIN d }

DictGet(d, cid) == d[CHOOSE k \in DOMAIN d : d[k].cid = cid].members

DictAdd(d, cid, n) ==
    IF cid \in DictKeys(d)
    THEN [k \in DOMAIN d |->
            IF d[k].cid = cid THEN [d[k] EXCEPT !.members = Append(@, n)] ELSE d[k]]
    ELSE Append(d, [cid |-> cid, members |-> <<n>>])

RECURSIVE ClustersUpTo(_)
ClustersUpTo(n) ==
    IF n = 0 THEN <<>> ELSE DictAdd(ClustersUpTo(n - 1), Label(n), n)

get_clusters == ClustersUpTo(Len(Points))

----------------------------------------------------------------------------
(* STDBSCAN.get_statistics.  A float quotient a / b is kept as the fraction
   [num |-> a, den |-> b]; the integer 0 of the "else 0" branches is the
   fraction 0 / 1. *)

Frac(a, b) == [num |-> a, den |-> b]

FracEq(f, a, b) == f.num * b = a * f.den

RECURSIVE SeqSum(_)
SeqSum(s) == IF s = <<>> THEN 0 ELSE Head(s) + SeqSum(Tail(s))

RECURSIVE SeqMax(_)
SeqMax(s) ==
    IF Len(s) = 1 THEN Head(s)
    ELSE LET m == SeqMax(Tail(s)) IN IF Head(s) > m THEN Head(s) ELSE m

RECURSIVE SeqMin(_)
SeqMin(s) ==
    IF Len(s) = 1 THEN Head(s)
    ELSE LET m == SeqMin(Tail(s)) IN IF Head(s) < m THEN Head(s) ELSE m

\* get_statistics with noise_ratio taken over the clustered points
get_statistics_Swapped ==
    LET clusters == get_clusters
        items == SelectSeq(clusters, LAMBDA it : it.cid > 0)
        n_noise == IF NOISE \in DictKeys(clusters) THEN Len(DictGet(clusters, NOISE)) ELSE 0
        n_points == Len(Points)
        cluster_sizes == [k \in DOMAIN items |-> Len(items[k].members)]
    IN  [n_points |-> n_points,
         n_clusters |-> Len(items),
         n_noise |-> n_noise,
         noise_ratio |-> IF n_points > 0 THEN Frac(n_points - n_noise, n_points) ELSE Frac(0, 1),
         cluster_sizes |-> cluster_sizes,
         avg_cluster_size |-> IF cluster_sizes # <<>>
                              THEN Frac(SeqSum(cluster_sizes), Len(cluster_sizes))
                              ELSE Frac(0, 1),
         max_cluster_size |-> IF cluster_sizes # <<>> THEN SeqMax(cluster_sizes) ELSE 0,
         min_cluster_size |-> IF cluster_sizes # <<>> THEN SeqMin(cluster_sizes) ELSE 0]

\* get_statistics without the "if n_points > 0" guard of line 257
get_statistics_NoGuard ==
    LET clusters == get_clusters
        items == SelectSeq(clusters, LAMBDA it : it.cid > 0)
        n_noise == IF NOISE \in DictKeys(clusters) THEN Len(DictGet(clusters, NOISE)) ELSE 0
        n_points == Len(Points)
        cluster_sizes == [k \in DOMAIN items |-> Len(items[k].members)]
    IN  [n_points |-> n_points,
         n_clusters |-> Len(items),
         n_noise |-> n_noise,
         noise_ratio |-> Frac(n_noise, n_points),
         cluster_sizes |-> cluster_sizes,
         avg_cluster_size |-> IF cluster_sizes # <<>>
                              THEN Frac(SeqSum(cluster_sizes), Len(cluster_sizes))
                              ELSE Frac(0, 1),
         max_cluster_size |-> IF cluster_sizes # <<>> THEN SeqMax(cluster_sizes) ELSE 0,
         min_cluster_size |-> IF cluster_sizes # <<>> THEN SeqMin(cluster_sizes) ELSE 0]

\* get_statistics that counts every key >= 0, the noise bucket included
get_statistics_CountNoise ==
    LET clusters == get_clusters
        items == SelectSeq(clusters, LAMBDA it : it.cid >= 0)
        n_noise == IF NOISE \in DictKeys(clusters) THEN Len(DictGet(clusters, NOISE)) ELSE 0
        n_points == Len(Points)
        cluster_sizes == [k \in DOMAIN items |-> Len(items[k].members)]
    IN  [n_points |-> n_points,
         n_clusters |-> Len(items),
         n_noise |-> n_noise,
         noise_ratio |-> IF n_points > 0 THEN Frac(n_noise, n_points) ELSE Frac(0, 1),
         cluster_sizes |-> cluster_sizes,
         avg_cluster_size |-> IF cluster_sizes # <<>>
                              THEN Frac(SeqSum(cluster_sizes), Len(cluster_sizes))
                              ELSE Frac(0, 1),
         max_cluster_size |-> IF cluster_sizes # <<>> THEN SeqMax(cluster_sizes) ELSE 0,
         min_cluster_size |-> IF cluster_sizes # <<>> THEN SeqMin(cluster_sizes) ELSE 0]

get_statistics ==
    LET clusters == get_clusters
        items == SelectSeq(clusters, LAMBDA it : it.cid > 0)
        n_noise == IF NOISE \in DictKeys(clusters) THEN Len(DictGet(clusters, NOISE)) ELSE 0
        n_points == Len(Points)
        cluster_sizes == [k \in DOMAIN items |-> Len(items[k].members)]
    IN  [n_points |-> n_points,
         n_clusters |-> Len(items),
         n_noise |-> n_noise,
         noise_ratio |-> IF n_points > 0 THEN Frac(n_noise, n_points) ELSE Frac(0, 1),
         cluster_sizes |-> cluster_sizes,
         avg_cluster_size |-> IF cluster_sizes # <<>>
                              THEN Frac(SeqSum(cluster_sizes), Len(cluster_sizes))
                              ELSE Frac(0, 1),
         max_cluster_size |-> IF cluster_sizes # <<>> THEN SeqMax(cluster_sizes) ELSE 0,
         min_cluster_size |-> IF cluster_sizes # <<>> THEN SeqMin(cluster_sizes) ELSE 0]

----------------------------------------------------------------------------
(* Vocabulary of the properties, stated on the points and the thresholds
   directly (not through get_neighbors) *)

Idx == 1..Len(Points)

Near(p, q) ==
    /\ p # q
    /\ Le(haversine_distance(Points[p].lat, Points[p].lon, Points[q].lat, Points[q].lon), eps1)
    /\ Le(temporal_distance(Points[p].time, Points[q].time), eps2)

NbrSet(p) == { q \in Idx : Near(p, q) }

IsCore(p) == Cardinality(NbrSet(p)) >= min_pts

SeqToSet(s) == { s[k] : k \in DOMAIN s }

\* points reachable from p by a chain whose intermediate points are core points
RECURSIVE ChainFrom(_, _)
ChainFrom(p, S) ==
    LET T == S \cup UNION { NbrSet(x) : x \in { y \in S : y = p \/ IsCore(y) } }
    IN  IF T = S THEN S ELSE ChainFrom(p, T)

Chain(p, q) == q \in ChainFrom(p, {p})

InRun == pc \in {"scan", "expand"}

ValidConfig(a) == a.min_pts >= 1 /\ a.eps1 > 0 /\ a.eps2 > 0

----------------------------------------------------------------------------
(* C1: after fit returns no point is UNCLASSIFIED: every label is 0 or a
   positive cluster id, and get_clusters() maps each label in use to a list
   of indices such that the lists are pairwise disjoint and together hold
   every index exactly once. *)
C1_Partition ==
    pc = "done" =>
        /\ \A k \in Idx : Label(k) # UNCLASSIFIED /\ Label(k) >= NOISE
        /\ LET d == get_clusters
           IN  /\ \A a, b \in DOMAIN d : a # b =>
                     /\ d[a].cid # d[b].cid
                     /\ SeqToSet(d[a].members) \cap SeqToSet(d[b].members) = {}
               /\ UNION { SeqToSet(d[a].members) : a \in DOMAIN d } = Idx
               /\ \A a \in DOMAIN d :
                     /\ Cardinality(SeqToSet(d[a].members)) = Len(d[a].members)
                     /\ \A n \in SeqToSet(d[a].members) : Label(n) = d[a].cid

\* a finished run that produced a noise point and a cluster of several points
C1_Witness ==
    /\ pc = "done"
    /\ \E k \in Idx : Label(k) = NOISE
    /\ \E p, q \in Idx : p # q /\ Label(p) = Label(q) /\ Label(p) > NOISE

(* C2: after fit, any two points with the same cluster id c > 0 are joined
   by a chain of points, consecutive ones within eps1 and eps2 of each
   other, whose intermediate points are all core points. *)
C2_DensityChain ==
    pc = "done" =>
        \A p, q \in Idx : (Label(p) = Label(q) /\ Label(p) > NOISE) => Chain(p, q)

\* two points of one cluster that are not neighbours: the chain has an
\* intermediate point
C2_Witness ==
    /\ pc = "done"
    /\ \E p, q \in Idx : p # q /\ Label(p) = Label(q) /\ Label(p) > NOISE /\ ~Near(p, q)

(* C3: after fit, no point labelled NOISE lies within eps1 and eps2 of a
   point that has at least min_pts neighbours. *)
C3_NoiseNotReachable ==
    pc = "done" =>
        \A k \in Idx : Label(k) = NOISE => ~(\E c \in Idx : IsCore(c) /\ Near(c, k))

(* C4: at every moment of a run and after it, a point labelled NOISE has
   fewer than min_pts neighbours: no core point is ever NOISE. *)
C4_NoiseNotCore ==
    (InRun \/ pc = "done") =>
        \A k \in Idx : Label(k) = NOISE => Cardinality(NbrSet(k)) < min_pts

\* a finished run with a noise point that has a neighbour
C4_Witness ==
    /\ pc = "done"
    /\ \E k \in Idx : Label(k) = NOISE /\ NbrSet(k) # {}

(* C5: within one fit run a label only goes UNCLASSIFIED -> NOISE,
   UNCLASSIFIED -> cluster id or NOISE -> cluster id; a positive cluster id
   never changes again, whichever expansion dequeues the point later. *)
C5_LabelTransitions ==
    [][ InRun =>
          \A k \in DOMAIN data :
              \/ data'[k].cluster = data[k].cluster
              \/ data[k].cluster = UNCLASSIFIED /\ data'[k].cluster >= NOISE
              \/ data[k].cluster = NOISE /\ data'[k].cluster > NOISE ]_vars

\* an expansion dequeues a point that already holds a cluster id
C5_Witness ==
    /\ pc = "expand"
    /\ queue # <<>>
    /\ Label(Head(queue)) > NOISE

(* C6: constructing the engine with min_pts < 1, eps_space <= 0 or
   eps_time <= 0 is rejected with a ConfigurationError at construction:
   the engine never leaves the constructor with such arguments. *)
C6_ConfigRejected ==
    (pc # "new" /\ ~ValidConfig(args)) => raised = "ConfigurationError"

----------------------------------------------------------------------------
(* Scenario vocabulary *)

SameTime == \A p, q \in Idx : Points[p].time = Points[q].time

SpatiallyNear(p, q) ==
    Le(haversine_distance(Points[p].lat, Points[p].lon, Points[q].lat, Points[q].lon), eps1)

\* 3 points pairwise within eps_space, one time, eps_space = 5, eps_time = 0
ScenarioA ==
    /\ Len(Points) = 3
    /\ eps1 = 5
    /\ eps2 = 0
    /\ SameTime
    /\ \A p, q \in Idx : SpatiallyNear(p, q)

\* the 3 points of Scenario A (the set S) plus 2 points outside eps_space of
\* every other point
ScenarioB ==
    /\ Len(Points) = 5
    /\ eps1 = 5
    /\ eps2 = 0
    /\ SameTime
    /\ \E S \in SUBSET Idx :
          /\ Cardinality(S) = 3
          /\ \A p, q \in S : SpatiallyNear(p, q)
          /\ \A f \in Idx \ S : \A q \in Idx \ {f} : ~SpatiallyNear(f, q)

(* C7 as stated: Scenario A with min_pts = 3 yields exactly one cluster
   holding all 3 points and no noise point. *)
C7_ScenarioA_Stated ==
    (pc = "done" /\ ScenarioA /\ min_pts = 3) =>
        /\ get_statistics.n_clusters = 1
        /\ get_statistics.cluster_sizes = <<3>>
        /\ get_statistics.n_noise = 0

(* C7 as amended: in Scenario A each point has 2 neighbours (itself is not
   counted), so with min_pts = 3 all 3 points are NOISE and there is no
   cluster; the one cluster of all 3 points with no noise is what
   min_pts = 2 yields. *)
C7_ScenarioA ==
    (pc = "done" /\ ScenarioA) =>
        /\ min_pts = 3 =>
              /\ get_statistics.n_clusters = 0
              /\ get_statistics.n_noise = 3
              /\ \A k \in Idx : Label(k) = NOISE
        /\ min_pts = 2 =>
              /\ get_statistics.n_clusters = 1
              /\ get_statistics.cluster_sizes = <<3>>
              /\ get_statistics.n_noise = 0
              /\ \A k \in Idx : Label(k) = 1

\* Scenario A has been fitted with min_pts = 3
C7_Witness ==
    /\ pc = "done"
    /\ ScenarioA
    /\ min_pts = 3
    /\ \E p, q \in Idx : Points[p].lat # Points[q].lat

(* C8 as stated: Scenario B with min_pts = 3 yields one cluster of size 3,
   2 noise points and noise_ratio = 2/5 = 0.4. *)
C8_ScenarioB_Stated ==
    (pc = "done" /\ ScenarioB /\ min_pts = 3) =>
        /\ get_statistics.n_clusters = 1
        /\ get_statistics.cluster_sizes = <<3>>
        /\ get_statistics.n_noise = 2
        /\ FracEq(get_statistics.noise_ratio, 4, 10)

(* C8 as amended: in Scenario B with min_pts = 3 no point has 3 neighbours,
   so all 5 points are NOISE and noise_ratio = 1; one cluster of size 3,
   2 noise points and noise_ratio = 0.4 is what min_pts = 2 yields. *)
C8_ScenarioB ==
    (pc = "done" /\ ScenarioB) =>
        /\ min_pts = 3 =>
              /\ get_statistics.n_clusters = 0
              /\ get_statistics.cluster_sizes = <<>>
              /\ get_statistics.n_noise = 5
              /\ FracEq(get_statistics.noise_ratio, 1, 1)
        /\ min_pts = 2 =>
              /\ get_statistics.n_clusters = 1
              /\ get_statistics.cluster_sizes = <<3>>
              /\ get_statistics.n_noise = 2
              /\ FracEq(get_statistics.noise_ratio, 4, 10)

\* Scenario B has been fitted with min_pts = 3
C8_Witness ==
    /\ pc = "done"
    /\ ScenarioB
    /\ min_pts = 3

----------------------------------------------------------------------------
(* Re-ordering vocabulary *)

Refitted == pc = "done" /\ DOMAIN prev # {}

PrevLabel(k) == prev[Points[k].id]

\* core points joined to p by a chain of core points
RECURSIVE CoreComponent(_)
CoreComponent(S) ==
    LET T == S \cup { q \in Idx : IsCore(q) /\ \E x \in S : Near(x, q) }
    IN  IF T = S THEN S ELSE CoreComponent(T)

(* C9: a point is labelled NOISE after fitting one order of the input iff
   it is labelled NOISE after fitting any other order of it. *)
C9_NoiseOrderIndependent ==
    Refitted => \A k \in Idx : (Label(k) = NOISE) <=> (PrevLabel(k) = NOISE)

(* C10: two core points carry the same cluster id after fitting one order
   of the input iff they do after fitting any other order; after every fit
   two core points share a cluster id exactly when a chain of core points
   joins them (the core sets are the connected components of the core-point
   neighbour graph). *)
C10_CoreGrouping ==
    /\ pc = "done" =>
          \A p, q \in { k \in Idx : IsCore(k) } :
              (Label(p) = Label(q)) <=> (q \in CoreComponent({p}))
    /\ Refitted =>
          \A p, q \in { k \in Idx : IsCore(k) } :
              (Label(p) = Label(q)) <=> (PrevLabel(p) = PrevLabel(q))

\* a re-ordered list has been fitted, it has two clusters of core points, and
\* a core point carries another cluster id than after the first fit
C10_Witness ==
    /\ Refitted
    /\ \E p, q \in { k \in Idx : IsCore(k) } :
          /\ Label(p) # Label(q)
          /\ Label(p) # PrevLabel(p)

----------------------------------------------------------------------------
(* C14: fit on an empty list returns without allocating a cluster or
   raising, and get_statistics() then reports n_points = 0, n_clusters = 0,
   n_noise = 0, noise_ratio = 0 and empty cluster_sizes; no quotient has a
   zero denominator. *)
C14_EmptyInput ==
    (pc = "done" /\ Len(Points) = 0) =>
        /\ raised = "none"
        /\ cluster_id = 0
        /\ get_statistics.n_points = 0
        /\ get_statistics.n_clusters = 0
        /\ get_statistics.n_noise = 0
        /\ get_statistics.noise_ratio.den # 0
        /\ FracEq(get_statistics.noise_ratio, 0, 1)
        /\ get_statistics.cluster_sizes = <<>>
        /\ get_statistics.avg_cluster_size.den # 0

\* fit has returned on the empty list
C14_Witness ==
    /\ pc = "done"
    /\ points = "data"
    /\ data = <<>>

(* C15: with eps_time = 0, two points that carry the same positive cluster
   id have equal time coordinates, during the run and after it. *)
C15_SameTimeClusters ==
    (eps2 = 0 /\ (InRun \/ pc = "done")) =>
        \A p, q \in Idx :
            (Label(p) = Label(q) /\ Label(p) > NOISE) => Points[p].time = Points[q].time

\* eps_time = 0, the input holds two different times, and a cluster of
\* several points has formed
C15_Witness ==
    /\ pc = "done"
    /\ eps2 = 0
    /\ \E p, q \in Idx : Points[p].time # Points[q].time
    /\ \E p, q \in Idx : p # q /\ Label(p) = Label(q) /\ Label(p) > NOISE

(* C16: get_neighbors(i) returns exactly the indices j # i whose spatial
   distance to i is <= eps1 and whose temporal distance to i is <= eps2,
   each once; never i itself. *)
C16_NeighborsExact ==
    (InRun \/ pc = "done") =>
        \A p \in Idx :
            LET n == get_neighbors(p)
            IN  /\ SeqToSet(n) =
                      { j \in Idx \ {p} :
                          /\ Abs(Points[p].lat - Points[j].lat) <= eps1
                          /\ Abs(Points[p].time - Points[j].time) <= eps2 }
                /\ Cardinality(SeqToSet(n)) = Len(n)

\* some point has a neighbour, a point that fails only the spatial test and
\* a point that fails only the temporal test
C16_Witness ==
    /\ pc = "scan"
    /\ \E p \in Idx :
          /\ get_neighbors(p) # <<>>
          /\ \E j \in Idx : /\ Abs(Points[p].lat - Points[j].lat) > eps1
                             /\ Abs(Points[p].time - Points[j].time) <= eps2
          /\ \E j \in Idx : /\ Abs(Points[p].lat - Points[j].lat) <= eps1
                             /\ Abs(Points[p].time - Points[j].time) > eps2

(* C17: after fit the positive labels in use are exactly 1..k, where k is
   the engine's cluster-id counter and also get_statistics()'s n_clusters. *)
C17_ClusterIdsDense ==
    pc = "done" =>
        /\ { Label(k) : k \in Idx } \ {NOISE} = 1..cluster_id
        /\ get_statistics.n_clusters = cluster_id

\* a finished run with two clusters
C17_Witness ==
    /\ pc = "done"
    /\ cluster_id >= 2

(* C18: after fit, n_clusters is the number of distinct positive labels,
   n_noise the number of points labelled 0, n_noise plus the cluster sizes
   add up to n_points, and with no cluster avg/min/max size are all 0. *)
C18_StatisticsConsistent ==
    pc = "done" =>
        LET st == get_statistics
        IN  /\ st.n_clusters = Cardinality({ Label(k) : k \in Idx } \ {NOISE})
            /\ st.n_noise = Cardinality({ k \in Idx : Label(k) = NOISE })
            /\ st.n_points = Len(Points)
            /\ st.n_noise + SeqSum(st.cluster_sizes) = st.n_points
            /\ Len(st.cluster_sizes) = st.n_clusters
            /\ st.n_clusters = 0 =>
                  /\ FracEq(st.avg_cluster_size, 0, 1)
                  /\ st.avg_cluster_size.den # 0
                  /\ st.max_cluster_size = 0
                  /\ st.min_cluster_size = 0

\* a finished run whose points are all noise: there is no cluster
C18_Witness ==
    /\ pc = "done"
    /\ Len(Points) >= 2
    /\ \A k \in Idx : Label(k) = NOISE

----------------------------------------------------------------------------
(* C19: Scenario C: the 3 points of Scenario A fitted with min_pts = 5 are
   all NOISE and get_statistics() reports n_clusters = 0. *)
C19_ScenarioC ==
    (pc = "done" /\ ScenarioA /\ min_pts = 5) =>
        /\ \A k \in Idx : Label(k) = NOISE
        /\ get_statistics.n_clusters = 0
        /\ get_statistics.n_noise = 3

\* Scenario A's points have been fitted with min_pts = 5
C19_Witness ==
    /\ pc = "done"
    /\ ScenarioA
    /\ min_pts = 5
    /\ \E p, q \in Idx : Points[p].lat # Points[q].lat

\* two groups of 4 points, pairwise within eps_space inside a group and
\* outside eps_space across the groups, at one time
ScenarioD ==
    /\ Len(Points) = 8
    /\ eps1 = 5
    /\ eps2 = 0
    /\ min_pts = 3
    /\ SameTime
    /\ \E S \in SUBSET Idx :
          /\ Cardinality(S) = 4
          /\ \A p, q \in S : SpatiallyNear(p, q)
          /\ \A p, q \in Idx \ S : SpatiallyNear(p, q)
          /\ \A p \in S : \A q \in Idx \ S : ~SpatiallyNear(p, q)

(* C20: Scenario D: get_statistics() reports n_clusters = 2 and
   cluster_sizes = [4, 4], whatever the order of the 8 points. *)
C20_ScenarioD ==
    (pc = "done" /\ ScenarioD) =>
        /\ get_statistics.n_clusters = 2
        /\ get_statistics.cluster_sizes = <<4, 4>>
        /\ get_statistics.n_noise = 0

\* Scenario D has been fitted on a list in which the two groups interleave
C20_Witness ==
    /\ pc = "done"
    /\ ScenarioD
    /\ ~SpatiallyNear(1, 2)
    /\ ~SpatiallyNear(2, 3)
    /\ ~SpatiallyNear(7, 8)

----------------------------------------------------------------------------
(* C11: fit run again on the same input with the same parameters, on the
   same engine or on a fresh one, gives every point the label it had after
   the run before, cluster-id numbers included. *)
C11_RefitSameLabels ==
    Refitted => \A k \in Idx : Label(k) = PrevLabel(k)

\* a second run has finished on an input that forms two clusters of several
\* points
C11_Witness ==
    /\ Refitted
    /\ cluster_id = 2
    /\ \E p, q \in Idx : p # q /\ Label(p) = 1 /\ Label(q) = 1
    /\ \E p, q \in Idx : p # q /\ Label(p) = 2 /\ Label(q) = 2

----------------------------------------------------------------------------
(* A parameter sweep (examples/weather_clustering.py, test_different_parameters):
   the caller reads the results of one engine, then builds another engine
   with other arguments and fits it over the same list of point objects.
   The first engine's self.points is that same list (line 194), so what its
   get_clusters / get_statistics return afterwards is computed from the
   labels the list carries then. *)

Sweep ==
    /\ pc = "done"
    /\ DOMAIN first = {}
    /\ DOMAIN prev = {}
    /\ Len(data) >= 1
    /\ first' = [clusters |-> get_clusters, statistics |-> get_statistics]
    /\ prev' = LabelsById
    /\ \E a \in ArgSets : a # args /\ args' = a
    /\ pc' = "new"
    /\ UNCHANGED <<data, eps1, eps2, min_pts, points, cluster_id, i, queue, raised, nbr_calls, outside>>

NextSweep == Next \/ Sweep

SpecSweep == Init /\ [][NextSweep]_vars

\* the second engine of a sweep has finished its fit
Swept == pc = "done" /\ DOMAIN first # {}

(* C12: the labels, get_clusters() and get_statistics() obtained from one
   engine's fit are unchanged by a later fit of another engine over the same
   point objects. *)
C12_FirstEngineUnchanged ==
    Swept =>
        /\ \A k \in Idx : Label(k) = PrevLabel(k)
        /\ get_clusters = first.clusters
        /\ get_statistics = first.statistics

----------------------------------------------------------------------------
\* some point of the caller's list has a non-finite lat, lon or time
NonFinite ==
    \E k \in DOMAIN data : NaN \in {data[k].lat, data[k].lon, data[k].time}

(* C13: a fit over a list holding a point with a non-finite coordinate ends
   with a DataError surfaced to the caller, and no label of any point has
   been mutated. *)
C13_NonFiniteRejected ==
    (NonFinite /\ pc = "done") =>
        /\ raised = "DataError"
        /\ \A k \in DOMAIN data : data[k].cluster = UNCLASSIFIED

----------------------------------------------------------------------------
(* A caller that reads the labels by position after fit, then fits a list
   agreeing with the first one position by position on lat, lon and time
   but carrying other id and value fields (ids may repeat). *)

Repayload ==
    /\ pc = "done"
    /\ DOMAIN first = {}
    /\ DOMAIN prev = {}
    /\ Len(data) >= 1
    /\ first' = [labels |-> [k \in DOMAIN data |-> data[k].cluster]]
    /\ \E f \in [DOMAIN data -> BOOLEAN \X {1, 2}] :
          data' = [k \in DOMAIN data |->
                     [data[k] EXCEPT !.id = IF f[k][1] THEN 0 ELSE @,
                                     !.value = f[k][2]]]
    /\ pc' = "idle"
    /\ UNCHANGED <<args, eps1, eps2, min_pts, points, cluster_id, i, queue, raised, prev, nbr_calls, outside>>

InitPayload == Init /\ Len(data) <= 3

NextPayload == Next \/ Repayload

SpecPayload == InitPayload /\ [][NextPayload]_vars

\* the fit over the list with the other payload has returned
Repayloaded == pc = "done" /\ DOMAIN first # {}

(* C21: two input lists that agree position by position on lat, lon and
   time but differ in value and/or id receive identical labels. *)
C21_PayloadIgnored ==
    Repayloaded => \A k \in Idx : Label(k) = first.labels[k]

\* the second list repeats an id, changes a value, and forms a cluster
C21_Witness ==
    /\ Repayloaded
    /\ \E p, q \in Idx : p # q /\ Points[p].id = Points[q].id /\ Label(p) = Label(q) /\ Label(p) >= 1
    /\ \E p \in Idx : Points[p].value = 2
    /\ \E p \in Idx : Label(p) = NOISE

----------------------------------------------------------------------------
(* C22: fit terminates on every input list and parameter setting: every
   expansion empties its queue and the main pass reaches the end of the
   list, so the call returns. *)
C22_FitTerminates == <>(pc = "done")

\* fit has returned after an expansion in which a point was enqueued by
\* several core points
C22_Witness ==
    /\ pc = "done"
    /\ Len(Points) = MaxPts
    /\ \E p \in Idx :
          /\ Label(p) >= 1
          /\ Cardinality({ q \in NbrSet(p) : IsCore(q) /\ Label(q) = Label(p) }) >= 2

----------------------------------------------------------------------------
(* _overpass_request (src/algo2/backend/main.py, lines 39-57): the outer
   loop over range(retries + 1), the inner loop over OVERPASS_URLS, one
   action per iteration of the inner loop.  A request ends "ok" (post,
   raise_for_status and r.json() all succeed) or in an exception of one of
   the three calls; the network decides, so both are always possible. *)

MaxRetries == 2

OVERPASS_URLS ==
    <<"https://overpass-api.de/api/interpreter",
      "https://z.overpass-api.de/api/interpreter",
      "https://overpass.kumi.systems/api/interpreter">>

\* the calls of the try block that can raise
Failures == {"post", "raise_for_status", "json"}

\* the exception caught for request number n
Err(n, kind) == [request |-> n, kind |-> kind]

\* the parsed JSON of request number n
Json(n) == [request |-> n, json |-> "parsed"]

InitOverpass ==
    /\ NoExporter
    /\ StoreInit
    /\ retries \in 0..MaxRetries
    /\ ov_pc = "idle"
    /\ attempt = 0
    /\ base = 0
    /\ last_err = <<>>
    /\ sent = <<>>
    /\ ov_result = <<>>
    /\ args = [eps1 |-> 0, eps2 |-> 0, min_pts |-> 0]
    /\ data = <<>>
    /\ pc = "off"
    /\ eps1 = 0
    /\ eps2 = 0
    /\ min_pts = 0
    /\ points = "own"
    /\ cluster_id = 0
    /\ i = 0
    /\ queue = <<>>
    /\ raised = "none"
    /\ prev = <<>>
    /\ first = <<>>
    /\ nbr_calls = {}

\* lines 43-45: last_err = None, enter the loops
OverpassCall ==
    /\ ov_pc = "idle"
    /\ ov_pc' = "loop"
    /\ attempt' = 0
    /\ base' = 1
    /\ last_err' = <<>>
    /\ UNCHANGED <<retries, sent, ov_result, engineVars, exporter, storeVars>>

\* lines 46-49: the request succeeds and its JSON is returned
RequestOk ==
    /\ ov_pc = "loop"
    /\ attempt < retries + 1
    /\ sent' = Append(sent, [url |-> OVERPASS_URLS[base], attempt |-> attempt, ok |-> TRUE])
    /\ ov_result' = <<Json(Len(sent) + 1)>>
    /\ ov_pc' = "returned"
    /\ UNCHANGED <<retries, attempt, base, last_err, engineVars, exporter, storeVars>>

\* RequestFail that gives up the attempt at the first failing endpoint
RequestFail_NoFallback ==
    /\ ov_pc = "loop"
    /\ attempt < retries + 1
    /\ \E kind \in Failures :
          last_err' = <<Err(Len(sent) + 1, kind)>>
    /\ sent' = Append(sent, [url |-> OVERPASS_URLS[base], attempt |-> attempt, ok |-> FALSE])
    /\ attempt' = attempt + 1
    /\ base' = 1
    /\ UNCHANGED <<retries, ov_pc, ov_result, engineVars, exporter, storeVars>>

\* lines 50-55: the request fails, the exception is kept, next endpoint (or,
\* after the last endpoint, next attempt)
RequestFail ==
    /\ ov_pc = "loop"
    /\ attempt < retries + 1
    /\ \E kind \in Failures :
          last_err' = <<Err(Len(sent) + 1, kind)>>
    /\ sent' = Append(sent, [url |-> OVERPASS_URLS[base], attempt |-> attempt, ok |-> FALSE])
    /\ IF base < Len(OVERPASS_URLS)
          THEN base' = base + 1 /\ attempt' = attempt
          ELSE base' = 1 /\ attempt' = attempt + 1
    /\ UNCHANGED <<retries, ov_pc, ov_result, engineVars, exporter, storeVars>>

\* line 57: both loops are over
OverpassRaise ==
    /\ ov_pc = "loop"
    /\ attempt >= retries + 1
    /\ ov_result' = IF last_err # <<>> THEN last_err ELSE <<"RuntimeError">>
    /\ ov_pc' = "raised"
    /\ UNCHANGED <<retries, attempt, base, last_err, sent, engineVars, exporter, storeVars>>

NextOverpass ==
    \/ OverpassCall
    \/ RequestOk
    \/ RequestFail
    \/ OverpassRaise

SpecOverpass == InitOverpass /\ [][NextOverpass]_vars

\* the endpoint and attempt of the n-th request when the endpoints are tried
\* in list order within each attempt
InListOrder(n) ==
    /\ sent[n].url = OVERPASS_URLS[((n - 1) % Len(OVERPASS_URLS)) + 1]
    /\ sent[n].attempt = (n - 1) \div Len(OVERPASS_URLS)

(* C23: _overpass_request tries the endpoints in list order within each of
   retries + 1 attempts, returns the parsed JSON of the first successful
   request and sends nothing after it, and raises the last error seen only
   after all (retries + 1) * |OVERPASS_URLS| requests have failed. *)
C23_OverpassFallback ==
    /\ \A n \in DOMAIN sent : InListOrder(n)
    /\ Len(sent) <= (retries + 1) * Len(OVERPASS_URLS)
    /\ \A n \in DOMAIN sent : sent[n].ok => (n = Len(sent) /\ ov_pc = "returned")
    /\ ov_pc = "returned" =>
          /\ sent # <<>>
          /\ sent[Len(sent)].ok
          /\ ov_result = <<Json(Len(sent))>>
    /\ ov_pc = "raised" =>
          /\ Len(sent) = (retries + 1) * Len(OVERPASS_URLS)
          /\ \A n \in DOMAIN sent : ~sent[n].ok
          /\ \E kind \in Failures : ov_result = <<Err(Len(sent), kind)>>

\* the call returned from the second endpoint of a later attempt
C23_Witness ==
    /\ ov_pc = "returned"
    /\ Len(sent) = Len(OVERPASS_URLS) + 2
    /\ sent[Len(sent)].attempt = 1

----------------------------------------------------------------------------
\* what the current step appended behind the rest of the queue
Pushed == SubSeq(queue', Len(queue), Len(queue'))

\* the current step dequeues a candidate of an expansion
Dequeues == pc = "expand" /\ queue # <<>>

\* a dequeued candidate enqueues only if it was UNCLASSIFIED and has at least
\* min_pts neighbours, and then exactly its currently UNCLASSIFIED neighbours
PushesOnlyFromCore ==
    LET c == Head(queue)
    IN  /\ queue' = Tail(queue) \o Pushed
        /\ Pushed # <<>> => (Label(c) = UNCLASSIFIED /\ IsCore(c))
        /\ (Label(c) = UNCLASSIFIED /\ IsCore(c)) =>
              /\ SeqToSet(Pushed) = { q \in NbrSet(c) : Label(q) = UNCLASSIFIED }
              /\ Cardinality(SeqToSet(Pushed)) = Len(Pushed)

(* C24 as stated: a candidate with fewer than min_pts neighbours, a former
   NOISE point, or a point already holding a cluster id enqueues nothing and
   has no neighbourhood computed. *)
C24_ExpansionPushes_Stated ==
    [][Dequeues =>
         LET c == Head(queue)
         IN  /\ PushesOnlyFromCore
             /\ (~IsCore(c) \/ Label(c) = NOISE \/ Label(c) > NOISE) =>
                   (Pushed = <<>> /\ nbr_calls' = nbr_calls)]_vars

(* C24: a dequeued candidate enqueues neighbours only if it was UNCLASSIFIED
   when dequeued and has at least min_pts neighbours, and then only its
   currently UNCLASSIFIED neighbours.  A former NOISE point or a point
   already holding a cluster id enqueues nothing and has no neighbourhood
   computed; an UNCLASSIFIED candidate always has its neighbourhood computed
   (line 170), and enqueues nothing when it has fewer than min_pts
   neighbours. *)
C24_ExpansionPushes ==
    [][Dequeues =>
         LET c == Head(queue)
         IN  /\ PushesOnlyFromCore
             /\ Label(c) # UNCLASSIFIED => (Pushed = <<>> /\ nbr_calls' = nbr_calls)
             /\ Label(c) = UNCLASSIFIED => nbr_calls' = nbr_calls \cup {c}
             /\ (Label(c) = UNCLASSIFIED /\ ~IsCore(c)) => Pushed = <<>>]_vars

\* an expansion has taken in a border point the main pass has not reached,
\* and a core point of it has enqueued neighbours
C24_Witness ==
    /\ pc = "expand"
    /\ \E p \in Idx : p > i /\ Label(p) = cluster_id /\ ~IsCore(p) /\ p \in nbr_calls
    /\ \E p \in Idx : p > i /\ Label(p) = cluster_id /\ IsCore(p) /\ p \in nbr_calls

----------------------------------------------------------------------------
\* the fields of a point that are not its label
Payload(p) == [id |-> p.id, lat |-> p.lat, lon |-> p.lon, time |-> p.time, value |-> p.value]

\* a step of fit: from the call (pc = "idle") to the return
FitStep == pc \in {"idle", "scan", "expand"}

(* C25: fit changes nothing but the cluster label of each point: the id,
   lat, lon, time and value of every point and the length and order of the
   list stay as they are, and so do the engine's eps1, eps2 and min_pts. *)
C25_FitFrame ==
    [][FitStep =>
         /\ Len(data') = Len(data)
         /\ \A k \in DOMAIN data : Payload(data'[k]) = Payload(data[k])
         /\ eps1' = eps1
         /\ eps2' = eps2
         /\ min_pts' = min_pts]_vars

\* fit has returned having labelled a cluster of several points and a noise
\* point, on a list whose points differ
C25_Witness ==
    /\ pc = "done"
    /\ \E p, q \in Idx : p # q /\ Label(p) = 1 /\ Label(q) = 1
    /\ \E p \in Idx : Label(p) = NOISE
    /\ \E p, q \in Idx : Points[p].lat # Points[q].lat

----------------------------------------------------------------------------
\* the core points labelled c
CoresOf(c) == { k \in Idx : Label(k) = c /\ IsCore(k) }

\* the smallest index of a core point labelled c
MinCore(c) == CHOOSE k \in CoresOf(c) : \A j \in CoresOf(c) : k <= j

(* C26: the seed of each cluster is the smallest-index core point of that
   cluster, and cluster a has a smaller id than cluster b iff the
   smallest-index core point of a precedes that of b in the input list. *)
C26_SeedOrder ==
    /\ pc = "expand" => (i \in CoresOf(cluster_id) /\ MinCore(cluster_id) = i)
    /\ (InRun \/ pc = "done") =>
          /\ \A c \in 1..cluster_id : CoresOf(c) # {}
          /\ \A a, b \in 1..cluster_id : a < b <=> MinCore(a) < MinCore(b)

\* two clusters whose points interleave in the list: a point of the first
\* follows a point of the second
C26_Witness ==
    /\ pc = "done"
    /\ cluster_id >= 2
    /\ \E p, q \in Idx : Label(p) = 1 /\ Label(q) = 2 /\ q < p

----------------------------------------------------------------------------
(* C27: get_statistics()['cluster_sizes'] lists the cluster sizes in
   ascending cluster-id order: its entry number c (1-based) is the number of
   points labelled c. *)
C27_SizesByClusterId ==
    pc = "done" =>
        /\ Len(get_statistics.cluster_sizes) = cluster_id
        /\ \A c \in 1..cluster_id :
              get_statistics.cluster_sizes[c] = Cardinality({ k \in Idx : Label(k) = c })

----------------------------------------------------------------------------
\* to_json, lines 73-76: the metadata
ToJsonMetadata ==
    [n_points |-> Len(ExporterPoints), n_clusters |-> get_statistics.n_clusters]

\* get_cluster_bounds, lines 193-200: the indices looked up in self.points
BoundsIndices ==
    UNION { SeqToSet(get_clusters[c].members) :
              c \in { d \in DOMAIN get_clusters : get_clusters[d].cid # NOISE } }

(* C28: after any sequence of fit calls on the wrapped engine the
   exporter's point list is the engine's point list, so the indices of
   get_clusters() used in get_cluster_bounds() and the n_points / n_clusters
   of to_json() refer to the same points. *)
C28_ExporterCurrent ==
    (exporter.built /\ pc = "done") =>
        /\ exporter.points = points
        /\ ToJsonMetadata.n_points = Len(Points)
        /\ BoundsIndices \subseteq DOMAIN ExporterPoints

----------------------------------------------------------------------------
(* DataStore (src/DayLast/app.py): update_data on the polling thread, one
   action per iteration of its loop over new_stations, and the readers of
   the request threads.  Every method body runs under self.lock.  A station
   is a dict of the feed; one that lacks the key 'free_bikes' makes line 50
   raise KeyError, which leaves the with block (releasing the lock) and is
   caught by poll_citybikes at line 159.  The station's name is modelled by
   its id, its latitude by its id and its longitude by 0. *)

MaxStations == 3
MaxUpdates == 3

\* self.MAX_COUNTERS (50 at line 36), scaled down so that the table fills up
MAX_COUNTERS == 2

Station(sid, free) ==
    [id |-> sid, name |-> sid, latitude |-> sid, longitude |-> 0, free_bikes |-> free]

\* a station dict of the feed without the key 'free_bikes'
Malformed(sid) == [id |-> sid, name |-> sid, latitude |-> sid, longitude |-> 0]

\* the feed entries a station id can have
Entries(sid) == { Station(sid, free) : free \in 0..1 } \cup { Malformed(sid) }

\* the station lists of the feed: some of the stations, in id order
RECURSIVE StationListsUpTo(_)
StationListsUpTo(n) ==
    IF n = 0 THEN { <<>> }
    ELSE LET shorter == StationListsUpTo(n - 1)
         IN  shorter \cup { Append(l, e) : l \in shorter, e \in Entries(n) }

StationLists == StationListsUpTo(MaxStations)

CounterKeys(c) == { c[n].name : n \in DOMAIN c }

CounterGet(c, name) == c[CHOOSE n \in DOMAIN c : c[n].name = name].count

\* min(self.activity_counter, key=self.activity_counter.get): the first key,
\* in the dict's order, whose count is the least
MinKeyIndex(c) ==
    CHOOSE n \in DOMAIN c :
        /\ \A m \in DOMAIN c : c[n].count <= c[m].count
        /\ \A m \in DOMAIN c : (m < n) => c[m].count > c[n].count

\* the dict without its n-th item
DictPop(c, n) == SubSeq(c, 1, n - 1) \o SubSeq(c, n + 1, Len(c))

\* _increment_counter without the eviction: a full table keeps growing
increment_counter_NoEvict(c, name) ==
    IF name \in CounterKeys(c)
    THEN [n \in DOMAIN c |-> IF c[n].name = name THEN [c[n] EXCEPT !.count = @ + 1] ELSE c[n]]
    ELSE Append(c, [name |-> name, count |-> 1])

\* DataStore._increment_counter, lines 73-83
increment_counter(c, name) ==
    IF name \in CounterKeys(c)
    THEN [n \in DOMAIN c |-> IF c[n].name = name THEN [c[n] EXCEPT !.count = @ + 1] ELSE c[n]]
    ELSE IF Len(c) < MAX_COUNTERS
    THEN Append(c, [name |-> name, count |-> 1])
    ELSE Append(DictPop(c, MinKeyIndex(c)), [name |-> name, count |-> 1])

InitStore ==
    /\ StoreInit
    /\ OverpassIdle
    /\ NoExporter
    /\ args = [eps1 |-> 0, eps2 |-> 0, min_pts |-> 0]
    /\ data = <<>>
    /\ pc = "off"
    /\ eps1 = 0
    /\ eps2 = 0
    /\ min_pts = 0
    /\ points = "own"
    /\ cluster_id = 0
    /\ i = 0
    /\ queue = <<>>
    /\ raised = "none"
    /\ prev = <<>>
    /\ first = <<>>
    /\ nbr_calls = {}

\* poll_citybikes line 150 and update_data lines 40-46: take the lock, start
\* a new index
UpdateBegin ==
    /\ upd.pc = "idle"
    /\ lock = "free"
    /\ n_calls < MaxUpdates
    /\ \E ns \in StationLists :
          upd' = [pc |-> "loop", new_stations |-> ns, k |-> 1, empty_coords |-> <<>>]
    /\ lock' = "poll"
    /\ rtree_idx' = <<>>
    /\ n_calls' = n_calls + 1
    /\ UNCHANGED <<stations, empty_stations_coords, activity_counter, committed, seen,
                   engineVars, overpassVars, exporter>>

\* the station the loop of update_data is at
Current == upd.new_stations[upd.k]

\* lines 47-69: one iteration of the loop on a well-formed station
UpdateStation ==
    /\ upd.pc = "loop"
    /\ upd.k <= Len(upd.new_stations)
    /\ "free_bikes" \in DOMAIN Current
    /\ LET st == Current
           sid == st.id
           free == st.free_bikes
       IN  /\ activity_counter' =
                 IF sid \in DOMAIN stations /\ stations[sid].free_bikes # free
                 THEN increment_counter(activity_counter, st.name)
                 ELSE activity_counter
           /\ stations' = [x \in DOMAIN stations \cup {sid} |->
                             IF x = sid THEN st ELSE stations[x]]
           /\ rtree_idx' = Append(rtree_idx, [i |-> upd.k - 1, obj |-> st])
           /\ upd' = [upd EXCEPT !.k = @ + 1,
                                 !.empty_coords = IF free = 0
                                                  THEN Append(@, <<st.latitude, st.longitude>>)
                                                  ELSE @]
    /\ UNCHANGED <<empty_stations_coords, lock, n_calls, committed, seen,
                   engineVars, overpassVars, exporter>>

\* line 50 raises KeyError: the with block releases the lock, poll_citybikes
\* (lines 159-160) prints the error and goes on
UpdateAbort ==
    /\ upd.pc = "loop"
    /\ upd.k <= Len(upd.new_stations)
    /\ "free_bikes" \notin DOMAIN Current
    /\ lock' = "free"
    /\ upd' = [pc |-> "idle", new_stations |-> <<>>, k |-> 0, empty_coords |-> <<>>]
    /\ UNCHANGED <<stations, rtree_idx, empty_stations_coords, activity_counter, n_calls,
                   committed, seen, engineVars, overpassVars, exporter>>

\* line 71 and the end of the with block
UpdateEnd ==
    /\ upd.pc = "loop"
    /\ upd.k > Len(upd.new_stations)
    /\ empty_stations_coords' = upd.empty_coords
    /\ lock' = "free"
    /\ upd' = [pc |-> "idle", new_stations |-> <<>>, k |-> 0, empty_coords |-> <<>>]
    /\ committed' = [rtree_idx |-> rtree_idx, stations |-> stations,
                     empty_stations_coords |-> upd.empty_coords]
    /\ UNCHANGED <<stations, rtree_idx, activity_counter, n_calls, seen,
                   engineVars, overpassVars, exporter>>

\* search_bounds, get_clusters, get_ranking on a request thread: the body
\* runs under the lock (lines 87, 101, 121), so it reads the store as it is
\* at one moment at which no update_data call holds the lock
Read ==
    /\ lock = "free"
    /\ seen' = <<Store>>
    /\ seen' # seen
    /\ UNCHANGED <<stations, rtree_idx, empty_stations_coords, activity_counter, lock, upd,
                   n_calls, committed, engineVars, overpassVars, exporter>>

NextStore ==
    \/ UpdateBegin
    \/ UpdateStation
    \/ UpdateAbort
    \/ UpdateEnd
    \/ Read

SpecStore == InitStore /\ [][NextStore]_vars

(* C29: a reader never observes a partially updated store: the spatial
   index, the stations map and empty_stations_coords it sees are those left
   by one completed update_data call (or the initial ones), also when an
   update_data call aborts with an exception part-way through its list. *)
C29_ReadersSeeCommitted ==
    seen # <<>> => seen[1] = committed

----------------------------------------------------------------------------
\* the table holds at most MAX_COUNTERS entries, one per name, each count >= 1
CounterBounded(c) ==
    /\ Len(c) <= MAX_COUNTERS
    /\ \A n \in DOMAIN c : c[n].count >= 1
    /\ \A n, m \in DOMAIN c : c[n].name = c[m].name => n = m

\* the current step of update_data counts a change of a station that is not
\* in the table while the table is full
EvictionStep ==
    /\ upd.pc = "loop"
    /\ upd.k <= Len(upd.new_stations)
    /\ "free_bikes" \in DOMAIN Current
    /\ Current.id \in DOMAIN stations
    /\ stations[Current.id].free_bikes # Current.free_bikes
    /\ Current.name \notin CounterKeys(activity_counter)
    /\ Len(activity_counter) = MAX_COUNTERS

(* C30: activity_counter always holds at most MAX_COUNTERS entries and every
   stored count is at least 1; when the table is full and an untracked
   station changes, exactly one minimum-count entry is evicted and the new
   station is inserted with count 1. *)
C30_CounterBounded ==
    [][/\ CounterBounded(activity_counter')
       /\ EvictionStep =>
             \E gone \in CounterKeys(activity_counter) :
                 /\ \A n \in DOMAIN activity_counter :
                       CounterGet(activity_counter, gone) <= activity_counter[n].count
                 /\ CounterKeys(activity_counter') =
                       (CounterKeys(activity_counter) \ {gone}) \cup {Current.name}
                 /\ CounterGet(activity_counter', Current.name) = 1
                 /\ \A name \in CounterKeys(activity_counter) \ {gone} :
                       CounterGet(activity_counter', name) = CounterGet(activity_counter, name)]_vars

\* the second update_data call has gone through its list, more stations than
\* the table holds have changed since the first call, and the table holds
\* the last of them with count 1
C30_Witness ==
    /\ n_calls = 2
    /\ upd.pc = "loop"
    /\ upd.k > Len(upd.new_stations)
    /\ Cardinality({ sid \in DOMAIN committed.stations :
                        committed.stations[sid].free_bikes # stations[sid].free_bikes })
          > MAX_COUNTERS
    /\ Len(activity_counter) = MAX_COUNTERS
    /\ activity_counter[MAX_COUNTERS] = [name |-> MaxStations, count |-> 1]

====
